---- MODULE Spec2Model ----
(***************************************************************************)
(* A model of Uncertainty/pagerank/pagerank.py: transition_model,          *)
(* sample_pagerank and iterate_pagerank.                                   *)
(*                                                                         *)
(* Numbers.  iterate_pagerank and transition_model are modelled in exact   *)
(* rational arithmetic (arbitrary-precision numerators over a known        *)
(* denominator); the claims about them carry a tolerance or are identities *)
(* of real arithmetic.  The final division count / n of sample_pagerank is *)
(* modelled as the IEEE-754 binary64 division Python performs (correctly   *)
(* rounded, round-half-to-even), because the claim about it is a claim of  *)
(* exact equality.                                                         *)
(***************************************************************************)
EXTENDS Integers, Sequences, FiniteSets, TLC

\* ---------------------------------------------------------------- bounds
MaxPages == 3       \* corpora have 0..MaxPages pages, named 1..N in key order
MaxSamples == 6     \* sample_pagerank is called with n in -1..MaxSamples
MaxRounds == 40     \* sweeps of iterate_pagerank the model follows

\* ------------------------------------------------------ program constants
ThresholdDen == 1000   \* the convergence threshold 0.001 = 1/ThresholdDen
FloatPrecision == 53   \* significand bits of a Python float (binary64)

\* DAMPING = 0.85 of the source, two other values inside (0,1), and the
\* boundary value 0, which lies outside the open interval.
DAMPING == <<17, 20>>
Dampings == {<<0, 1>>, <<1, 1000>>, <<1, 2>>, DAMPING}
ValidDamping(d) == 0 < d[1] /\ d[1] < d[2]

\* ------------------------------------------- arbitrary-precision naturals
\* A natural number is the sequence of its limbs, least significant first,
\* without high zero limbs; << >> is 0.
\*
\* Every operator binds its arguments once, as the only element of a set
\* (CHOOSE r \in {e(x) : x \in {arg}} : TRUE), so that an argument is
\* evaluated a single time wherever the operator is used.
Base == 2^15

RECURSIVE BigNorm(_)
BigNorm(a0) ==
    CHOOSE r \in {IF a = << >> THEN << >>
                  ELSE IF a[Len(a)] = 0 THEN BigNorm(SubSeq(a, 1, Len(a) - 1))
                  ELSE a : a \in {a0}} : TRUE

RECURSIVE BigFromInt(_)
BigFromInt(k) == IF k = 0 THEN << >> ELSE <<k % Base>> \o BigFromInt(k \div Base)

\* limb j of a, 0 beyond its length
Limb(a, j) == IF j <= Len(a) THEN a[j] ELSE 0

\* the limbs from j on of a + b + carry c at limb j
RECURSIVE BigAddFrom(_, _, _, _)
BigAddFrom(a, b, j, c0) ==
    CHOOSE r \in {IF j > Len(a) /\ j > Len(b)
                  THEN (IF c = 0 THEN << >> ELSE <<c>>)
                  ELSE <<(Limb(a, j) + Limb(b, j) + c) % Base>>
                       \o BigAddFrom(a, b, j + 1,
                                     (Limb(a, j) + Limb(b, j) + c) \div Base)
                  : c \in {c0}} : TRUE

BigAdd(a0, b0) ==
    CHOOSE r \in {BigAddFrom(a, b, 1, 0) : a \in {a0}, b \in {b0}} : TRUE

\* the limbs from j on of a - b - borrow br at limb j, for a >= b
RECURSIVE BigSubFrom(_, _, _, _)
BigSubFrom(a, b, j, br0) ==
    CHOOSE r \in {IF j > Len(a) THEN << >>
                  ELSE IF a[j] >= Limb(b, j) + br
                  THEN <<a[j] - Limb(b, j) - br>> \o BigSubFrom(a, b, j + 1, 0)
                  ELSE <<a[j] + Base - Limb(b, j) - br>> \o BigSubFrom(a, b, j + 1, 1)
                  : br \in {br0}} : TRUE

BigSub(a0, b0) ==
    CHOOSE r \in {BigNorm(BigSubFrom(a, b, 1, 0)) : a \in {a0}, b \in {b0}} : TRUE

\* a * s for a small s (0 <= s < Base)
RECURSIVE BigMulFrom(_, _, _, _)
BigMulFrom(a, s, j, c0) ==
    CHOOSE r \in {IF j > Len(a) THEN (IF c = 0 THEN << >> ELSE <<c>>)
                  ELSE <<(a[j] * s + c) % Base>>
                       \o BigMulFrom(a, s, j + 1, (a[j] * s + c) \div Base)
                  : c \in {c0}} : TRUE

BigMulSmall(a0, s0) ==
    CHOOSE r \in {IF s = 0 THEN << >> ELSE BigMulFrom(a, s, 1, 0)
                  : a \in {a0}, s \in {s0}} : TRUE

RECURSIVE BigCmpFrom(_, _, _)
BigCmpFrom(a, b, j) ==
    IF j = 0 THEN 0
    ELSE IF a[j] < b[j] THEN -1
    ELSE IF a[j] > b[j] THEN 1
    ELSE BigCmpFrom(a, b, j - 1)

BigCmp(a0, b0) ==
    CHOOSE r \in {IF Len(a) < Len(b) THEN -1
                  ELSE IF Len(a) > Len(b) THEN 1
                  ELSE BigCmpFrom(a, b, Len(a)) : a \in {a0}, b \in {b0}} : TRUE

BigLess(a, b) == BigCmp(a, b) = -1

\* |a - b|
BigAbsDiff(a0, b0) ==
    CHOOSE r \in {IF BigLess(a, b) THEN BigSub(b, a) ELSE BigSub(a, b)
                  : a \in {a0}, b \in {b0}} : TRUE

\* quotient and remainder of a by a small s (0 < s <= Base): the limbs from j
\* down to 1, with rem the remainder of the limbs above j
RECURSIVE BigDivFrom(_, _, _, _)
BigDivFrom(a, s, j, rem0) ==
    CHOOSE r \in {IF j = 0 THEN [q |-> << >>, r |-> rem]
                  ELSE LET lo == BigDivFrom(a, s, j - 1, (rem * Base + a[j]) % s)
                       IN  [q |-> lo.q \o <<(rem * Base + a[j]) \div s>>, r |-> lo.r]
                  : rem \in {rem0}} : TRUE

BigDivMod(a0, s0) ==
    CHOOSE r \in {LET dm == BigDivFrom(a, s, Len(a), 0)
                  IN  [q |-> BigNorm(dm.q), r |-> dm.r]
                  : a \in {a0}, s \in {s0}} : TRUE

\* a * s^k for a small s
RECURSIVE BigMulPow(_, _, _)
BigMulPow(a0, s, k) ==
    CHOOSE r \in {IF k = 0 \/ a = << >> THEN a
                  ELSE IF k = 1 THEN BigMulSmall(a, s)
                  ELSE BigMulPow(BigMulPow(a, s, k \div 2), s, k - (k \div 2))
                  : a \in {a0}} : TRUE

RECURSIVE BigSumOver(_, _)
BigSumOver(f, S) ==
    IF S = {} THEN << >>
    ELSE LET x == CHOOSE x \in S : TRUE IN BigAdd(f[x], BigSumOver(f, S \ {x}))

BigSum(f0, S0) ==
    CHOOSE r \in {BigSumOver(f, S) : f \in {f0}, S \in {S0}} : TRUE

\* ------------------------------------------------------- small rationals
\* <<a, b>> with b > 0 is the rational a / b (not reduced).
RECURSIVE Gcd(_, _)
Gcd(a0, b0) ==
    CHOOSE r \in {IF b = 0 THEN a ELSE Gcd(b, a % b) : a \in {a0}, b \in {b0}} : TRUE

Lcm(a, b) == (a \div Gcd(a, b)) * b

RatNorm(x) == LET g == Gcd(x[1], x[2]) IN <<x[1] \div g, x[2] \div g>>
RatAdd(x, y) == RatNorm(<<x[1] * y[2] + y[1] * x[2], x[2] * y[2]>>)
RatEq(x, y) == x[1] * y[2] = y[1] * x[2]

RECURSIVE RatSum(_, _)
RatSum(f, S) ==
    IF S = {} THEN <<0, 1>>
    ELSE LET x == CHOOSE x \in S : TRUE IN RatAdd(f[x], RatSum(f, S \ {x}))

\* ---------------------------------------------------------------- corpus
\* crawl(): a dictionary page -> set of pages; every link target is a key
\* and no page links to itself.  Pages are 1..N, in the key order of the
\* dictionary.
LinkGraphs(N) ==
    {c \in [1..N -> SUBSET (1..N)] : \A p \in 1..N : p \notin c[p]}

\* The functions treat all pages alike, so one corpus stands for all those
\* that differ from it by a renaming of the pages: the one of greatest code.
RECURSIVE IntSum(_, _)
IntSum(f, S) ==
    IF S = {} THEN 0
    ELSE LET x == CHOOSE x \in S : TRUE IN f[x] + IntSum(f, S \ {x})

GraphCode(c) ==
    LET N == Cardinality(DOMAIN c)
    IN  IntSum([e \in (1..N) \X (1..N) |->
                  IF e[2] \in c[e[1]] THEN 2^((e[1] - 1) * N + e[2] - 1) ELSE 0],
               (1..N) \X (1..N))

Renamings(N) ==
    {f \in [1..N -> 1..N] : \A a, b \in 1..N : a # b => f[a] # f[b]}

Rename(c, f) ==
    [p \in DOMAIN c |-> {f[q] : q \in c[CHOOSE a \in DOMAIN c : f[a] = p]}]

CorporaOf(N) ==
    {c \in LinkGraphs(N) :
        \A f \in Renamings(N) : GraphCode(Rename(c, f)) <= GraphCode(c)}

Corpora == UNION {CorporaOf(N) : N \in 0..MaxPages}

Pages(c) == DOMAIN c
NumPages(c) == Cardinality(DOMAIN c)

\* ------------------------------------------------------ transition_model
\* Mutant: the dangling-page branch is missing.
transition_model_NoSinkCase(c, pg, d) ==
    LET N == NumPages(c)
        L == IF c[pg] = {} THEN 1 ELSE Cardinality(c[pg])
        linked_prob == <<d[1], d[2] * L>>
        random_prob == <<d[2] - d[1], d[2] * N>>
    IN  [p \in Pages(c) |->
           IF p \in c[pg] THEN RatAdd(linked_prob, random_prob) ELSE random_prob]

\* Mutant: a linked page gets linked_prob alone.
transition_model_LinkedOnly(c, pg, d) ==
    LET N == NumPages(c)
    IN  IF c[pg] # {}
        THEN [p \in Pages(c) |->
                IF p \in c[pg] THEN <<d[1], d[2] * Cardinality(c[pg])>>
                ELSE <<d[2] - d[1], d[2] * N>>]
        ELSE [p \in Pages(c) |-> <<1, N>>]

\* Defined for page in corpus (corpus[page] raises KeyError otherwise).
transition_model(c, pg, d) ==
    LET N == NumPages(c)
    IN  IF c[pg] # {}
        THEN LET linked_prob == <<d[1], d[2] * Cardinality(c[pg])>>
                 random_prob == <<d[2] - d[1], d[2] * N>>
             IN  [p \in Pages(c) |->
                    IF p \in c[pg] THEN RatAdd(linked_prob, random_prob)
                    ELSE random_prob]
        ELSE [p \in Pages(c) |-> <<1, N>>]

VARIABLES call, corpus, damping_factor, n, page, distribution,
          pc, outcome, page_rank, new_rank, current_page, i, todo, rounds

vars == <<call, corpus, damping_factor, n, page, distribution,
          pc, outcome, page_rank, new_rank, current_page, i, todo, rounds>>

\* Locals not yet bound: no vector, no page.
NoVector == << >>
NoPage == 0

\* The state before a call: the arguments are bound, nothing has run.
Entry(f, c, d, k, pg) ==
    /\ call = f
    /\ corpus = c
    /\ damping_factor = d
    /\ n = k
    /\ page = pg
    /\ distribution = NoVector
    /\ pc = "entry"
    /\ outcome = "running"
    /\ page_rank = NoVector
    /\ new_rank = NoVector
    /\ current_page = NoPage
    /\ i = 0
    /\ todo = {}
    /\ rounds = 0

InitTransition ==
    \E c \in Corpora : \E pg \in Pages(c) : \E d \in Dampings :
        Entry("transition_model", c, d, 0, pg)

CallTransition ==
    /\ call = "transition_model"
    /\ pc = "entry"
    /\ distribution' = transition_model(corpus, page, damping_factor)
    /\ pc' = "done"
    /\ outcome' = "returned"
    /\ UNCHANGED <<call, corpus, damping_factor, n, page, page_rank, new_rank,
                   current_page, i, todo, rounds>>

TransitionSpec == InitTransition /\ [][CallTransition]_vars

\* ------------------------------------------------------ iterate_pagerank
\* A rank is [num |-> a, exp |-> k, unit |-> Step^k], the rational
\* a / (N * Step^k), where N is the number of pages and Step = (denominator
\* of the damping factor) * lcm(1..N): one sweep divides by the damping
\* denominator and by out-degrees or N, so a rank computed from ranks of
\* exponent k has exponent k + 1.
RECURSIVE LcmUpTo(_)
LcmUpTo(k) ==
    IF k = 0 THEN 1 ELSE CHOOSE r \in {Lcm(m, k) : m \in {LcmUpTo(k - 1)}} : TRUE

RankScale(c) == LcmUpTo(NumPages(c))
Step(c, d) == d[2] * RankScale(c)

RankAt(c, d, x, k) == BigMulPow(x.num, Step(c, d), k - x.exp)

\* an entry of r of the greatest exponent
RECURSIVE MaxExp(_, _)
MaxExp(r, S) ==
    IF S = {} THEN [num |-> << >>, exp |-> 0, unit |-> <<1>>]
    ELSE LET q == CHOOSE q \in S : TRUE
         IN  CHOOSE e \in {IF r[q].exp > m.exp THEN r[q] ELSE m
                           : m \in {MaxExp(r, S \ {q})}} : TRUE

RankEq(c, d, x, y) ==
    LET k == IF x.exp > y.exp THEN x.exp ELSE y.exp
    IN  RankAt(c, d, x, k) = RankAt(c, d, y, k)

\* abs(x - y) < 0.001
RankClose(c, d, x, y) ==
    LET k == IF x.exp > y.exp THEN x.exp ELSE y.exp
        unit == IF x.exp > y.exp THEN x.unit ELSE y.unit
    IN  BigLess(BigMulSmall(BigAbsDiff(RankAt(c, d, x, k), RankAt(c, d, y, k)),
                            ThresholdDen),
                BigMulSmall(unit, NumPages(c)))

\* {page: 1 / N for page in corpus}
UniformRank(c) == [p \in Pages(c) |-> [num |-> <<1>>, exp |-> 0, unit |-> <<1>>]]

\* Mutant: the elif branch for pages without links is missing.
NewRankNoSink(c, d, r, pg) ==
    LET W == RankScale(c)
        top == MaxExp(r, Pages(c))
        k == top.exp
        term(linking_page) ==
            IF pg \in c[linking_page]
            THEN BigMulSmall(RankAt(c, d, r[linking_page], k),
                             d[1] * (W \div Cardinality(c[linking_page])))
            ELSE << >>
    IN  [num |-> BigAdd(BigMulSmall(top.unit, (d[2] - d[1]) * W),
                        BigSum([q \in Pages(c) |-> term(q)], Pages(c))),
         exp |-> k + 1,
         unit |-> BigMulSmall(top.unit, Step(c, d))]

\* Mutant: the share of a page without links is added outside the damped sum.
NewRankUndampedSink(c, d, r, pg) ==
    LET N == NumPages(c)
        W == RankScale(c)
        top == MaxExp(r, Pages(c))
        k == top.exp
        term(linking_page) ==
            IF pg \in c[linking_page]
            THEN BigMulSmall(RankAt(c, d, r[linking_page], k),
                             d[1] * (W \div Cardinality(c[linking_page])))
            ELSE IF c[linking_page] = {}
            THEN BigMulSmall(RankAt(c, d, r[linking_page], k), d[2] * (W \div N))
            ELSE << >>
    IN  [num |-> BigAdd(BigMulSmall(top.unit, (d[2] - d[1]) * W),
                        BigSum([q \in Pages(c) |-> term(q)], Pages(c))),
         exp |-> k + 1,
         unit |-> BigMulSmall(top.unit, Step(c, d))]

\* The body of "for page in corpus" (lines 126-134): the new rank of page pg,
\* read from the vector r.
NewRank(c, d, r, pg) ==
    LET N == NumPages(c)
        W == RankScale(c)
        top == MaxExp(r, Pages(c))
        k == top.exp
        term(linking_page) ==
            IF pg \in c[linking_page]
            THEN BigMulSmall(RankAt(c, d, r[linking_page], k),
                             d[1] * (W \div Cardinality(c[linking_page])))
            ELSE IF c[linking_page] = {}
            THEN BigMulSmall(RankAt(c, d, r[linking_page], k), d[1] * (W \div N))
            ELSE << >>
        rank_sum == BigSum([q \in Pages(c) |-> term(q)], Pages(c))
    IN  [num |-> BigAdd(BigMulSmall(top.unit, (d[2] - d[1]) * W),
                        rank_sum),
         exp |-> k + 1,
         unit |-> BigMulSmall(top.unit, Step(c, d))]

\* all(abs(new_rank[page] - page_rank[page]) < 0.001 for page in corpus)
Converged(c, d, old, new) ==
    \A p \in Pages(c) : RankClose(c, d, new[p], old[p])

InitIterate ==
    \E c \in Corpora : \E d \in Dampings :
        Entry("iterate_pagerank", c, d, 0, NoPage)

\* lines 120-122
IterEnter ==
    /\ call = "iterate_pagerank"
    /\ pc = "entry"
    /\ page_rank' = UniformRank(corpus)
    /\ new_rank' = UniformRank(corpus)
    /\ todo' = Pages(corpus)
    /\ pc' = "sweep"
    /\ UNCHANGED <<call, corpus, damping_factor, n, page, distribution,
                   outcome, current_page, i, rounds>>

\* Mutant: the sweep updates in place, reading the ranks already written in
\* this round (new_rank and page_rank are one dictionary).
IterUpdateInPlace(pg) ==
    /\ call = "iterate_pagerank"
    /\ pc = "sweep"
    /\ pg \in todo
    /\ new_rank' = [new_rank EXCEPT
                      ![pg] = NewRank(corpus, damping_factor, new_rank, pg)]
    /\ todo' = todo \ {pg}
    /\ UNCHANGED <<call, corpus, damping_factor, n, page, distribution, pc,
                   outcome, page_rank, current_page, i, rounds>>

\* one iteration of "for page in corpus"; the dictionary's key order is not
\* fixed by the program, so any page not yet visited may be next
IterUpdate(pg) ==
    /\ call = "iterate_pagerank"
    /\ pc = "sweep"
    /\ pg \in todo
    /\ new_rank' = [new_rank EXCEPT
                      ![pg] = NewRank(corpus, damping_factor, page_rank, pg)]
    /\ todo' = todo \ {pg}
    /\ UNCHANGED <<call, corpus, damping_factor, n, page, distribution, pc,
                   outcome, page_rank, current_page, i, rounds>>

\* Mutant: the function returns new_rank.
IterConvergedReturnsNew ==
    /\ call = "iterate_pagerank"
    /\ pc = "sweep"
    /\ todo = {}
    /\ Converged(corpus, damping_factor, page_rank, new_rank)
    /\ page_rank' = new_rank
    /\ pc' = "done"
    /\ outcome' = "returned"
    /\ UNCHANGED <<call, corpus, damping_factor, n, page, distribution,
                   new_rank, current_page, i, todo, rounds>>

\* lines 137-138 and 142: break, return page_rank
IterConverged ==
    /\ call = "iterate_pagerank"
    /\ pc = "sweep"
    /\ todo = {}
    /\ Converged(corpus, damping_factor, page_rank, new_rank)
    /\ pc' = "done"
    /\ outcome' = "returned"
    /\ UNCHANGED <<call, corpus, damping_factor, n, page, distribution,
                   page_rank, new_rank, current_page, i, todo, rounds>>

\* Mutant: line 140 is missing, the loop goes round with the old vector.
IterAdoptForgets ==
    /\ call = "iterate_pagerank"
    /\ pc = "sweep"
    /\ todo = {}
    /\ ~Converged(corpus, damping_factor, page_rank, new_rank)
    /\ rounds < MaxRounds
    /\ todo' = Pages(corpus)
    /\ UNCHANGED <<call, corpus, damping_factor, n, page, distribution, pc,
                   outcome, page_rank, new_rank, current_page, i, rounds>>

\* line 140: page_rank = new_rank.copy(), and the loop goes round
IterAdopt ==
    /\ call = "iterate_pagerank"
    /\ pc = "sweep"
    /\ todo = {}
    /\ ~Converged(corpus, damping_factor, page_rank, new_rank)
    /\ rounds < MaxRounds
    /\ page_rank' = new_rank
    /\ todo' = Pages(corpus)
    /\ rounds' = rounds + 1
    /\ UNCHANGED <<call, corpus, damping_factor, n, page, distribution, pc,
                   outcome, new_rank, current_page, i>>

IterNext ==
    \/ IterEnter
    \/ \E pg \in Pages(corpus) : IterUpdate(pg)
    \/ IterConverged
    \/ IterAdopt

IterateSpec == InitIterate /\ [][IterNext]_vars

\* The loop has no iteration cap and no step is ever blocked: the
\* interpreter keeps running the function until it returns.
IterateFair == IterateSpec /\ WF_vars(IterNext)

\* ------------------------------------------------------- Python floats
\* A finite non-negative float is [sig |-> a, exp |-> e], the dyadic rational
\* a * 2^e with 2^(FloatPrecision-1) <= a < 2^FloatPrecision, or a = 0 and
\* e = 0 (the sign of -0.0 is dropped: -0.0 == 0.0).  Only count / n and the sum of such quotients are needed.
FloatZero == [sig |-> << >>, exp |-> 0]

\* a * 2^k
BigShl(a, k) ==
    IF a = << >> THEN << >>
    ELSE [j \in 1..(k \div 15) |-> 0] \o BigMulSmall(a, 2^(k % 15))

TwoToPrecision == BigShl(<<1>>, FloatPrecision)
TwoToPrecisionLess1 == BigShl(<<1>>, FloatPrecision - 1)

FloatOne == [sig |-> TwoToPrecisionLess1, exp |-> 1 - FloatPrecision]

BigOdd(a) == a # << >> /\ Head(a) % 2 = 1

RECURSIVE BitLen(_)
BitLen(k) == IF k = 0 THEN 0 ELSE 1 + BitLen(k \div 2)

\* The float nearest to (a + f) * 2^e for a >= 2^(FloatPrecision-1), where f
\* in [0,1) has first binary digit g and st = 1 iff f has a later non-zero
\* digit: low bits are dropped until a fits the significand, then
\* round-half-to-even.
RECURSIVE FloatRound(_, _, _, _)
FloatRound(a0, e, g, st) ==
    CHOOSE r \in
      {IF BigLess(a, TwoToPrecision)
       THEN IF g = 1 /\ (st = 1 \/ BigOdd(a))
            THEN IF BigAdd(a, <<1>>) = TwoToPrecision
                 THEN [sig |-> TwoToPrecisionLess1, exp |-> e + 1]
                 ELSE [sig |-> BigAdd(a, <<1>>), exp |-> e]
            ELSE [sig |-> a, exp |-> e]
       ELSE FloatRound(BigDivMod(a, 2).q, e + 1, a[1] % 2, IF g = 1 THEN 1 ELSE st)
       : a \in {a0}} : TRUE

\* count / k for integers count >= 0 and k # 0 (count = 0 when k < 0):
\* Python's int / int is the correctly rounded quotient.
FloatDiv(count, k) ==
    IF count = 0 THEN FloatZero
    ELSE LET sh == FloatPrecision + BitLen(k) - BitLen(count)
             dm == BigDivMod(BigShl(BigFromInt(count), sh), k)
             g  == IF 2 * dm.r >= k THEN 1 ELSE 0
             st == IF 2 * dm.r - g * k = 0 THEN 0 ELSE 1
         IN  FloatRound(dm.q, 0 - sh, g, st)

\* x + y, correctly rounded
FloatAdd(x, y) ==
    IF x.sig = << >> THEN y
    ELSE IF y.sig = << >> THEN x
    ELSE LET e == IF x.exp < y.exp THEN x.exp ELSE y.exp
         IN  FloatRound(BigAdd(BigShl(x.sig, x.exp - e), BigShl(y.sig, y.exp - e)),
                        e, 0, 0)

\* s = 0; for v in ranks.values(): s += v     (keys in dictionary order)
RECURSIVE FloatSumTo(_, _)
FloatSumTo(v, k) == IF k = 0 THEN FloatZero ELSE FloatAdd(FloatSumTo(v, k - 1), v[k])

\* |x - 1| <= m * 2^-FloatPrecision
FloatNearOne(x, m) ==
    LET e == IF x.exp < 0 - FloatPrecision THEN x.exp ELSE 0 - FloatPrecision
    IN  ~BigLess(BigShl(BigFromInt(m), 0 - FloatPrecision - e),
                 BigAbsDiff(BigShl(x.sig, x.exp - e), BigShl(<<1>>, 0 - e)))

\* ------------------------------------------------------- sample_pagerank
\* The walk visits the same pages whatever the links are as long as the
\* damping factor is below 1 (every weight is positive), so the sampler is
\* run on the corpora whose pages have at most one link each.
SampleCorpora == {c \in Corpora : \A p \in Pages(c) : Cardinality(c[p]) <= 1}
SampleDampings == {<<0, 1>>, DAMPING}

InitSample ==
    \E c \in SampleCorpora : \E d \in SampleDampings : \E k \in -1..MaxSamples :
        Entry("sample_pagerank", c, d, k, NoPage)

\* lines 93-97 on an empty corpus: random.choice([]) raises IndexError
SampleEnterEmpty ==
    /\ call = "sample_pagerank"
    /\ pc = "entry"
    /\ Pages(corpus) = {}
    /\ page_rank' = << >>
    /\ pc' = "done"
    /\ outcome' = "IndexError"
    /\ UNCHANGED <<call, corpus, damping_factor, n, page, distribution,
                   new_rank, current_page, i, todo, rounds>>

\* lines 93-97
SampleEnter ==
    /\ call = "sample_pagerank"
    /\ pc = "entry"
    /\ Pages(corpus) # {}
    /\ page_rank' = [p \in Pages(corpus) |-> 0]
    /\ current_page' \in Pages(corpus)
    /\ pc' = "loop"
    /\ UNCHANGED <<call, corpus, damping_factor, n, page, distribution,
                   outcome, new_rank, i, todo, rounds>>

\* Mutant: the counter is set to 1 instead of incremented.
SampleStepAssign ==
    /\ call = "sample_pagerank"
    /\ pc = "loop"
    /\ i < n
    /\ page_rank' = [page_rank EXCEPT ![current_page] = 1]
    /\ LET dist == transition_model(corpus, current_page, damping_factor)
       IN  current_page' \in {p \in Pages(corpus) : dist[p][1] > 0}
    /\ i' = i + 1
    /\ UNCHANGED <<call, corpus, damping_factor, n, page, distribution, pc,
                   outcome, new_rank, todo, rounds>>

\* lines 99-103: one iteration of "for _ in range(n)"; random.choices draws
\* a page of positive weight
SampleStep ==
    /\ call = "sample_pagerank"
    /\ pc = "loop"
    /\ i < n
    /\ page_rank' = [page_rank EXCEPT ![current_page] = @ + 1]
    /\ LET dist == transition_model(corpus, current_page, damping_factor)
       IN  current_page' \in {p \in Pages(corpus) : dist[p][1] > 0}
    /\ i' = i + 1
    /\ UNCHANGED <<call, corpus, damping_factor, n, page, distribution, pc,
                   outcome, new_rank, todo, rounds>>

\* line 106 with n = 0: count / n raises ZeroDivisionError
SampleDivideByZero ==
    /\ call = "sample_pagerank"
    /\ pc = "loop"
    /\ ~(i < n)
    /\ n = 0
    /\ pc' = "done"
    /\ outcome' = "ZeroDivisionError"
    /\ UNCHANGED <<call, corpus, damping_factor, n, page, distribution,
                   page_rank, new_rank, current_page, i, todo, rounds>>

\* lines 106-108
SampleReturn ==
    /\ call = "sample_pagerank"
    /\ pc = "loop"
    /\ ~(i < n)
    /\ n # 0
    /\ page_rank' = [p \in Pages(corpus) |-> FloatDiv(page_rank[p], n)]
    /\ pc' = "done"
    /\ outcome' = "returned"
    /\ UNCHANGED <<call, corpus, damping_factor, n, page, distribution,
                   new_rank, current_page, i, todo, rounds>>

SampleNext ==
    \/ SampleEnterEmpty
    \/ SampleEnter
    \/ SampleStep
    \/ SampleDivideByZero
    \/ SampleReturn

SampleSpec == InitSample /\ [][SampleNext]_vars

\* ---------------------------------------------------------- the program
\* main() calls sample_pagerank and iterate_pagerank on the same corpus;
\* each call is followed on its own.
Init == InitTransition \/ InitSample \/ InitIterate

Next == CallTransition \/ SampleNext \/ IterNext

Spec == Init /\ [][Next]_vars

\* ================================================================ claims
Returned(f) == call = f /\ outcome = "returned"
ValidInput == Pages(corpus) # {} /\ ValidDamping(damping_factor)
Dangling(c) == {p \in Pages(c) : c[p] = {}}

\* ------------------------------------------------------------------- C3
\* C3: for a non-empty valid graph, a page of it and a damping factor in
\* (0,1), transition_model returns a mapping whose keys are exactly the keys
\* of the graph and whose values are non-negative and sum to 1, for a page
\* with links and for a dangling page.
TransitionIsDistribution ==
    (Returned("transition_model") /\ ValidInput) =>
        /\ DOMAIN distribution = Pages(corpus)
        /\ \A p \in Pages(corpus) : distribution[p][1] >= 0 /\ distribution[p][2] > 0
        /\ RatEq(RatSum(distribution, Pages(corpus)), <<1, 1>>)

TransitionDanglingReturned ==
    /\ Returned("transition_model") /\ ValidInput
    /\ corpus[page] = {}
    /\ NumPages(corpus) = 3
    /\ damping_factor = DAMPING

\* ------------------------------------------------------------------- C4
\* The reference rule, over one common denominator.
ReferenceProb(c, pg, d, p) ==
    LET N == NumPages(c)
        L == Cardinality(c[pg])
    IN  IF L > 0
        THEN IF p \in c[pg] THEN <<d[1] * N + (d[2] - d[1]) * L, d[2] * L * N>>
             ELSE <<d[2] - d[1], d[2] * N>>
        ELSE <<1, N>>

\* C4: transition_model gives each linked-to page damping/|links| +
\* (1-damping)/N and every other page (1-damping)/N when the page has links,
\* and gives every page 1/N, whatever the damping factor, when it has none.
TransitionFollowsReferenceRule ==
    Returned("transition_model") =>
        \A p \in Pages(corpus) :
            RatEq(distribution[p], ReferenceProb(corpus, page, damping_factor, p))

TransitionLinkedReturned ==
    /\ Returned("transition_model") /\ ValidInput
    /\ Cardinality(corpus[page]) = 1
    /\ NumPages(corpus) = 3
    /\ damping_factor = DAMPING
    /\ \E p \in corpus[page], q \in Pages(corpus) \ corpus[page] :
          ~RatEq(distribution[p], distribution[q])

\* ------------------------------------------------------------------- C1
RankTotal(c, d, r) ==
    LET k == MaxExp(r, Pages(c)).exp
    IN  BigSum([p \in Pages(c) |-> RankAt(c, d, r[p], k)], Pages(c))

\* |sum of r - 1| <= 1e-3
SumsToOneWithinTolerance(c, d, r) ==
    LET one == BigMulSmall(MaxExp(r, Pages(c)).unit, NumPages(c))
    IN  ~BigLess(one, BigMulSmall(BigAbsDiff(RankTotal(c, d, r), one), ThresholdDen))

\* C1: for a non-empty valid graph, dangling pages included, and a damping
\* factor in (0,1), the values iterate_pagerank returns sum to 1 within 1e-3.
IterateSumsToOne ==
    (Returned("iterate_pagerank") /\ ValidInput) =>
        SumsToOneWithinTolerance(corpus, damping_factor, page_rank)

IterateReturnedWithDangling ==
    /\ Returned("iterate_pagerank") /\ ValidInput
    /\ Dangling(corpus) # {}
    /\ Dangling(corpus) # Pages(corpus)
    /\ rounds >= 2

\* ------------------------------------------------------------------- C8
\* C8: a round is a synchronous sweep.  While it runs, a page already
\* visited holds the rank computed from the previous round's vector
\* page_rank, a page not yet visited still holds its rank of the previous
\* round, and so the outcome of the round is the same for every visiting
\* order; and visiting a page leaves the vector being read, page_rank, as
\* it was.
SweepIsSynchronous ==
    /\ []((call = "iterate_pagerank" /\ pc = "sweep") =>
            \A p \in Pages(corpus) :
                IF p \in todo
                THEN RankEq(corpus, damping_factor, new_rank[p], page_rank[p])
                ELSE new_rank[p] = NewRank(corpus, damping_factor, page_rank, p))
    /\ [][(call = "iterate_pagerank" /\ pc = "sweep" /\ todo # {}) =>
             page_rank' = page_rank]_vars

SweepHalfDone ==
    /\ call = "iterate_pagerank" /\ pc = "sweep" /\ ValidInput
    /\ rounds >= 1
    /\ \E p \in Pages(corpus) \ todo, q \in todo :
          /\ q \in corpus[p]
          /\ ~RankEq(corpus, damping_factor, new_rank[p], page_rank[p])

\* ------------------------------------------------------------------- C9
\* The sum over all pages q of r[q] * transition_model(c, q, d)[pg], as a rank
\* of exponent one above r's.
MirrorOfTransition(c, d, r, pg) ==
    LET top == MaxExp(r, Pages(c))
        k == top.exp
        weight(q) ==
            LET t == transition_model(c, q, d)[pg]
            IN  t[1] * (Step(c, d) \div t[2])
    IN  [num |-> BigSum([q \in Pages(c) |->
                           BigMulSmall(RankAt(c, d, r[q], k), weight(q))],
                        Pages(c)),
         exp |-> k + 1,
         unit |-> BigMulSmall(top.unit, Step(c, d))]

\* C9: the rank one sweep gives a page equals the sum over all pages q of
\* page_rank[q] * transition_model(corpus, q, damping)[page], so a dangling
\* page passes 1/N of its rank to every page, itself included.
SweepMirrorsTransitionModel ==
    (call = "iterate_pagerank" /\ pc \in {"sweep", "done"} /\ ValidInput) =>
        \A p \in Pages(corpus) \ todo :
            new_rank[p] = MirrorOfTransition(corpus, damping_factor, page_rank, p)

\* the graph {A: {}, B: {A}} of the specification, after a full sweep
SweepOfDanglingExample ==
    /\ call = "iterate_pagerank" /\ pc = "sweep" /\ todo = {}
    /\ corpus = <<{}, {1}>>
    /\ damping_factor = DAMPING
    /\ rounds >= 1
    /\ ~RankEq(corpus, damping_factor, new_rank[2], page_rank[2])

\* ------------------------------------------------------------------ C10
\* C10: the vector returned is the one the last sweep read, not the one it
\* wrote: one more sweep of it is the discarded new_rank and moves no page
\* by 0.001 or more, and when the first sweep already converges the result
\* is the uniform vector 1/N.
ReturnsVectorBeforeLastSweep ==
    Returned("iterate_pagerank") =>
        /\ \A p \in Pages(corpus) :
              /\ new_rank[p] = NewRank(corpus, damping_factor, page_rank, p)
              /\ RankClose(corpus, damping_factor,
                           NewRank(corpus, damping_factor, page_rank, p),
                           page_rank[p])
        /\ rounds = 0 => page_rank = UniformRank(corpus)

FirstSweepDiscarded ==
    /\ Returned("iterate_pagerank") /\ ValidInput
    /\ rounds = 0
    /\ \E p \in Pages(corpus) :
          ~RankEq(corpus, damping_factor, new_rank[p], page_rank[p])

\* ------------------------------------------------------------------- C7
\* C7: for a non-empty valid graph and a damping factor in (0,1),
\* iterate_pagerank returns: some sweep changes every page by less than 0.001.
IterateTerminates ==
    (call = "iterate_pagerank" /\ pc = "entry" /\ ValidInput)
        ~> (outcome = "returned")

IterateReturnedAfterManyRounds ==
    /\ Returned("iterate_pagerank") /\ ValidInput
    /\ rounds >= 30

\* ------------------------------------------------------------------- C2
\* C2 as stated: for a valid graph and a positive n the values
\* sample_pagerank returns sum to exactly 1.
SampleSumsToExactlyOne ==
    (Returned("sample_pagerank") /\ ValidInput /\ n > 0) =>
        FloatSumTo(page_rank, NumPages(corpus)) = FloatOne

\* C2 as amended: after k iterations the counters sum to exactly k, each
\* iteration adds 1 to the counter of the current page and to no other, and
\* for a positive n the returned floats count / n sum to 1 up to rounding,
\* within N * 2^-53 for N pages.
SampleCountersPartitionDraws ==
    /\ [](call = "sample_pagerank" =>
            /\ pc = "loop" =>
                  /\ IntSum(page_rank, Pages(corpus)) = i
                  /\ \A p \in Pages(corpus) : page_rank[p] >= 0
            /\ (outcome = "returned" /\ n > 0) =>
                  FloatNearOne(FloatSumTo(page_rank, NumPages(corpus)),
                               NumPages(corpus)))
    /\ [][(call = "sample_pagerank" /\ pc = "loop" /\ i' = i + 1) =>
             page_rank' = [page_rank EXCEPT ![current_page] = @ + 1]]_vars

SampleReturnedInexact ==
    /\ Returned("sample_pagerank") /\ ValidInput
    /\ n = MaxSamples
    /\ \A p \in Pages(corpus) : page_rank[p] # FloatZero
    /\ FloatSumTo(page_rank, NumPages(corpus)) # FloatOne

\* ------------------------------------------------------------------- C5
\* C5: on an empty graph sample_pagerank and iterate_pagerank fail with an
\* error before any computation; neither returns a rank vector.
EmptyGraphIsRejected ==
    (call \in {"sample_pagerank", "iterate_pagerank"} /\ Pages(corpus) = {}) =>
        (pc = "done" => outcome \in {"IndexError", "ZeroDivisionError"})

\* ------------------------------------------------------------------- C6
\* C6: sample_pagerank and iterate_pagerank fail, and return no rank
\* vector, when damping_factor is outside (0,1), and sample_pagerank does so
\* when n is not a positive integer.
InvalidArgumentIsRejected ==
    (/\ call \in {"sample_pagerank", "iterate_pagerank"}
     /\ Pages(corpus) # {}
     /\ \/ ~ValidDamping(damping_factor)
        \/ call = "sample_pagerank" /\ n <= 0) =>
        outcome # "returned"

====
